---- MODULE Spec2Model ----
(***************************************************************************)
(* Model of src/nativecode/membarrier.c: the JNI function                  *)
(* Java_nativecode_MemBarrier_flushAllThreads, called by several threads   *)
(* of one process.  A call is modelled statement by statement (line 9, the *)
(* syscall and the narrowing of its long result to int; line 10, the test  *)
(* against -1; line 11, the read of the thread's errno and its negation;   *)
(* line 13, the return of ret).  The kernel is the environment: it answers *)
(* each syscall with one of the values sys_membarrier can leave in the     *)
(* return register.                                                        *)
(*                                                                         *)
(* A C long is a pair of 32-bit words [hi, lo], each held as a signed      *)
(* 32-bit integer, so that the narrowing of line 9 is what the machine     *)
(* does: it keeps the low word and drops the high one.                     *)
(***************************************************************************)
EXTENDS Integers, Sequences, FiniteSets, TLC

\* ---------------------------------------------------------------- bounds
NThreads == 2
MaxCalls == 3
MaxFairCalls == 2

\* ------------------------------------------------------ program constants
SYS_membarrier == 324
MEMBARRIER_CMD_SHARED == 1
EPERM == 1
EAGAIN == 11
EINVAL == 22
ENOSYS == 38
MAX_ERRNO == 4095
INT_MAX == 2147483647

Threads == 1 .. NThreads

\* The error numbers the kernel reports for this call.
Errnos == {EPERM, EINVAL, ENOSYS}

\* What a thread's errno may hold before its first call (left by other code).
StaleErrnos == {0, EAGAIN}

\* ------------------------------------------------------------ C integers
\* The sign extension of an int to a long.
LongOfInt(i) == [hi |-> IF i < 0 THEN -1 ELSE 0, lo |-> i]

ToInt16(l) ==
  LET m == l.lo % 65536 IN IF m >= 32768 THEN m - 65536 ELSE m

\* The conversion of a long to an int (`int ret = syscall(...)`): the low word.
ToInt(l) == l.lo

\* `-errno`, in int.
NegInt(e) == 0 - e

\* ---------------------------------------------------------------- kernel
\* The values sys_membarrier leaves in the return register: a non-negative
\* int on success, -e on failure, sign-extended to the register's width.
KernelResults ==
  {LongOfInt(v) : v \in {0, INT_MAX}}
    \cup {LongOfInt(0 - e) : e \in Errnos}

\* The C library's test of a raw result: -4095 .. -1 is an error.
KFailed(raw) == raw.hi = -1 /\ raw.lo < 0 /\ raw.lo >= 0 - MAX_ERRNO

\* syscall(): on an error the wrapper stores the error number in the calling
\* thread's errno and returns -1; otherwise it returns the raw value and
\* leaves errno alone.
SyscallWrapper(raw) ==
  IF KFailed(raw)
  THEN [failed |-> TRUE, ret |-> LongOfInt(-1), err |-> 0 - raw.lo]
  ELSE [failed |-> FALSE, ret |-> raw, err |-> 0]

\* ----------------------------------------------------------------- state
VARIABLES
  pc,      \* pc[t]: "idle", "l9", "l10", "l11", "l13", "returned"
  ret,     \* ret[t]: the local `ret` of t's call, <<>> outside a call
  errno,   \* the errno cells, one per thread
  syslog,  \* syslog[t]: the syscalls t's current (or last) call has issued,
           \* each with whether another call was in flight at the time
  hist,    \* hist[t]: the calls t has completed: kernel's answer, value returned
  exc,     \* exc[t]: an exception is pending on t's JNIEnv
  calls    \* the number of calls made so far

vars == <<pc, ret, errno, syslog, hist, exc, calls>>

ErrnoLocShared(t) == 1

\* errno is thread-local: thread t reads and writes its own cell.
ErrnoLoc(t) == t

InFlight(t) == pc[t] \in {"l9", "l10", "l11", "l13"}
Returned(t) == pc[t] = "returned"

Init ==
  /\ pc = [t \in Threads |-> "idle"]
  /\ ret = [t \in Threads |-> <<>>]
  /\ errno \in [Threads -> StaleErrnos]
  /\ syslog = [t \in Threads |-> <<>>]
  /\ hist = [t \in Threads |-> <<>>]
  /\ exc = [t \in Threads |-> FALSE]
  /\ calls = 0

\* Line 8: a thread enters the function.
Call(t) ==
  /\ pc[t] \in {"idle", "returned"}
  /\ calls < MaxCalls
  /\ calls' = calls + 1
  /\ pc' = [pc EXCEPT ![t] = "l9"]
  /\ syslog' = [syslog EXCEPT ![t] = <<>>]
  /\ UNCHANGED <<ret, errno, hist, exc>>

\* Line 9: int ret = syscall(SYS_membarrier, MEMBARRIER_CMD_SHARED, 0);
Syscall(t) ==
  /\ pc[t] = "l9"
  /\ \E raw \in KernelResults :
       LET w == SyscallWrapper(raw) IN
         /\ syslog' = [syslog EXCEPT ![t] =
                         Append(@, [nr |-> SYS_membarrier,
                                    cmd |-> MEMBARRIER_CMD_SHARED,
                                    flags |-> 0,
                                    raw |-> raw,
                                    raced |-> \E u \in Threads \ {t} :
                                                InFlight(u)])]
         /\ errno' = IF w.failed
                     THEN [errno EXCEPT ![ErrnoLoc(t)] = w.err]
                     ELSE errno
         /\ ret' = [ret EXCEPT ![t] = <<ToInt(w.ret)>>]
  /\ pc' = [pc EXCEPT ![t] = "l10"]
  /\ UNCHANGED <<hist, exc, calls>>

TestErrno(t) ==
  /\ pc[t] = "l10"
  /\ pc' = [pc EXCEPT ![t] = IF errno[ErrnoLoc(t)] # 0 THEN "l11" ELSE "l13"]
  /\ UNCHANGED <<ret, errno, syslog, hist, exc, calls>>

TestRetry(t) ==
  /\ pc[t] = "l10"
  /\ pc' = [pc EXCEPT ![t] = IF ret[t][1] = -1 THEN "l9" ELSE "l13"]
  /\ UNCHANGED <<ret, errno, syslog, hist, exc, calls>>

\* Line 10: if (ret == -1)
Test(t) ==
  /\ pc[t] = "l10"
  /\ pc' = [pc EXCEPT ![t] = IF ret[t][1] = -1 THEN "l11" ELSE "l13"]
  /\ UNCHANGED <<ret, errno, syslog, hist, exc, calls>>

\* The call of t ends and hands `value` (a sequence of jints) to its caller.
Deliver(t, value) ==
  /\ hist' = [hist EXCEPT ![t] =
                Append(@, [answer |-> syslog[t][Len(syslog[t])].raw,
                           value |-> value])]
  /\ ret' = [ret EXCEPT ![t] = <<>>]
  /\ pc' = [pc EXCEPT ![t] = "returned"]

ReturnErrnoRaw(t) ==
  /\ pc[t] = "l11"
  /\ Deliver(t, <<ret[t][1]>>)
  /\ UNCHANGED <<errno, syslog, exc, calls>>

ReturnErrnoPositive(t) ==
  /\ pc[t] = "l11"
  /\ Deliver(t, <<errno[ErrnoLoc(t)]>>)
  /\ UNCHANGED <<errno, syslog, exc, calls>>

ReturnErrnoThrow(t) ==
  /\ pc[t] = "l11"
  /\ Deliver(t, <<>>)
  /\ exc' = [exc EXCEPT ![t] = TRUE]
  /\ UNCHANGED <<errno, syslog, calls>>

\* Line 11: return -errno;
ReturnErrno(t) ==
  /\ pc[t] = "l11"
  /\ Deliver(t, <<NegInt(errno[ErrnoLoc(t)])>>)
  /\ UNCHANGED <<errno, syslog, exc, calls>>

ReturnZero(t) ==
  /\ pc[t] = "l13"
  /\ Deliver(t, <<0>>)
  /\ UNCHANGED <<errno, syslog, exc, calls>>

\* Line 13: return ret;
ReturnRet(t) ==
  /\ pc[t] = "l13"
  /\ Deliver(t, <<ret[t][1]>>)
  /\ UNCHANGED <<errno, syslog, exc, calls>>

\* The steps of a call in flight.
Step(t) == Syscall(t) \/ Test(t) \/ ReturnErrno(t) \/ ReturnRet(t)

Next == \E t \in Threads : Call(t) \/ Step(t)

Spec == Init /\ [][Next]_vars

\* The same calls, at most MaxFairCalls of them, by threads that keep running:
\* a call that has started takes its next step, the kernel call included.
FairNext == \E t \in Threads : (calls < MaxFairCalls /\ Call(t)) \/ Step(t)

FairSpec ==
  Init /\ [][FairNext]_vars /\ \A t \in Threads : WF_vars(Step(t))

\* ------------------------------------------------------------ properties
\* The calls completed so far, and the last call a thread completed.
Done == UNION {{hist[t][i] : i \in DOMAIN hist[t]} : t \in Threads}
LastCall(t) == hist[t][Len(hist[t])]

\* The syscall of t's current (or last) call was issued while another call
\* was in flight.
Raced(t) == \E i \in DOMAIN syslog[t] : syslog[t][i].raced

\* C1: a call whose syscall failed with error number e (the wrapper returned
\* -1 and set errno to e > 0) returned exactly -e.
C1_FailureReturnsNegatedErrno ==
  \A c \in Done :
    KFailed(c.answer) =>
      LET e == SyscallWrapper(c.answer).err IN
        /\ e > 0
        /\ c.value = <<0 - e>>

\* A call has failed with ENOSYS and returned -ENOSYS.
C1_Witness ==
  \E c \in Done :
    /\ KFailed(c.answer)
    /\ SyscallWrapper(c.answer).err = ENOSYS
    /\ c.value = <<0 - ENOSYS>>

\* C2: a call whose syscall succeeded returned one value, non-negative and
\* equal to the kernel's return value, whatever errno held.
C2_SuccessReturnsKernelValue ==
  \A c \in Done :
    ~KFailed(c.answer) =>
      /\ Len(c.value) = 1
      /\ c.value[1] >= 0
      /\ LongOfInt(c.value[1]) = c.answer

\* A thread whose errno still holds an earlier failure's error number has
\* completed a successful call with a non-zero kernel value.
C2_Witness ==
  \E t \in Threads :
    /\ Returned(t)
    /\ errno[t] \in Errnos
    /\ ~KFailed(LastCall(t).answer)
    /\ LastCall(t).answer = LongOfInt(INT_MAX)
    /\ LastCall(t).value = <<INT_MAX>>

\* C4: a call that issued its syscall while other calls were in flight
\* returned the result of its own syscall, and a call in flight can always
\* take its next step.
C4_ConcurrentCallsIndependent ==
  /\ \A t \in Threads :
       Returned(t) /\ Raced(t) =>
         /\ Len(LastCall(t).value) = 1
         /\ LongOfInt(LastCall(t).value[1]) = syslog[t][1].raw
  /\ \A t \in Threads : InFlight(t) => ENABLED Step(t)

\* Two threads have completed calls whose syscalls were each issued while
\* another call was in flight, one that succeeded with 0 and one that failed
\* with EINVAL.
C4_Witness ==
  \E t, u \in Threads :
    /\ t # u
    /\ Returned(t) /\ Raced(t) /\ ~KFailed(syslog[t][1].raw)
    /\ Returned(u) /\ Raced(u) /\ KFailed(syslog[u][1].raw)
    /\ LastCall(t).value = <<0>>
    /\ LastCall(u).value = <<0 - EINVAL>>

\* The only state a call leaves behind: a failing syscall stores its error
\* number in the calling thread's errno; no other step writes errno, and no
\* step sets a pending exception.
C5_Frame ==
  \A t \in Threads :
    /\ exc'[t] = exc[t]
    /\ errno'[t] # errno[t] =>
         /\ pc[t] = "l9" /\ pc'[t] = "l10"
         /\ KFailed(syslog'[t][Len(syslog'[t])].raw)
         /\ errno'[t] = 0 - syslog'[t][Len(syslog'[t])].raw.lo

C6_AlwaysReturnsOneInteger ==
  /\ [](\A c \in Done : Len(c.value) = 1)
  /\ [](\A t \in Threads : ~exc[t])
  /\ \A t \in Threads : InFlight(t) ~> Returned(t)

\* A call has returned on the failure path.
C6_Witness ==
  \E t \in Threads :
    /\ Returned(t)
    /\ KFailed(LastCall(t).answer)
    /\ Len(LastCall(t).value) = 1
    /\ ~exc[t]

\* C7: a call issues the membarrier syscall exactly once, with the command
\* MEMBARRIER_CMD_SHARED and flags 0, on success and on failure.
C7_ExactlyOneSyscall ==
  \A t \in Threads :
    /\ Len(syslog[t]) <= 1
    /\ pc[t] \in {"l10", "l11", "l13", "returned"} => Len(syslog[t]) = 1
    /\ \A i \in DOMAIN syslog[t] :
         /\ syslog[t][i].nr = SYS_membarrier
         /\ syslog[t][i].cmd = MEMBARRIER_CMD_SHARED
         /\ syslog[t][i].flags = 0

\* A call whose syscall failed has returned after that one syscall.
C7_Witness ==
  \E t \in Threads :
    /\ Returned(t)
    /\ KFailed(LastCall(t).answer)
    /\ Len(syslog[t]) = 1
    /\ syslog[t][1].raw = LastCall(t).answer

\* C8: the returned value is negative exactly when the syscall failed, and a
\* returned -1 is the negation of EPERM.
C8_SignTellsOutcome ==
  \A c \in Done :
    /\ Len(c.value) = 1
    /\ c.value[1] < 0 <=> KFailed(c.answer)
    /\ c.value[1] = -1 =>
         KFailed(c.answer) /\ SyscallWrapper(c.answer).err = EPERM

\* A call has failed with EPERM and returned -1.
C8_Witness ==
  \E c \in Done :
    /\ KFailed(c.answer)
    /\ SyscallWrapper(c.answer).err = EPERM
    /\ c.value = <<-1>>

\* C9: the narrowing of the syscall's long result to int loses nothing (ret,
\* widened again, is the wrapper's result), and the value returned, widened
\* again, is the kernel's value on success and the negated error number on
\* failure.
C9_NarrowingKeepsMeaning ==
  /\ \A t \in Threads :
       pc[t] \in {"l10", "l11", "l13"} =>
         LongOfInt(ret[t][1]) = SyscallWrapper(syslog[t][Len(syslog[t])].raw).ret
  /\ \A c \in Done :
       /\ Len(c.value) = 1
       /\ c.value[1] >= 0 - INT_MAX - 1 /\ c.value[1] <= INT_MAX
       /\ LongOfInt(c.value[1]) =
            IF KFailed(c.answer)
            THEN LongOfInt(0 - SyscallWrapper(c.answer).err)
            ELSE c.answer

\* A call whose syscall returned INT_MAX has returned INT_MAX.
C9_Witness ==
  \E c \in Done :
    /\ c.answer = LongOfInt(INT_MAX)
    /\ c.value = <<INT_MAX>>

====
